---- MODULE Spec2Model ----
(***************************************************************************)
(* Streamlines (code/showcases/windmap.py): the space-filling streamline   *)
(* generator.  Coordinates are fixed-point integers; the velocity field is *)
(* integer valued; an interpolated velocity is kept as its numerator over  *)
(* dx*dy, which leaves arctan2 unchanged.  The step dr*cos(theta),         *)
(* dr*sin(theta) is rounded to the nearest fixed-point unit.               *)
(***************************************************************************)
EXTENDS Integers, Sequences, FiniteSets, TLC

\* ---------------------------------------------------------------- bounds
NPts == 4          \* points per axis of the regular grids
GridStep == 10     \* fixed-point units between two grid points
MaxSpacing == 2    \* spacing is drawn from 0..MaxSpacing
IterSlack == 1     \* outer-loop iterations explored beyond the interior cell count

Res == <<1, 2>>            \* res as a fraction (numerator, denominator)
MaxLens == {3, 20}         \* values of maxLen
Coefs == {-1, 0, 1}        \* coefficients a, b, c of the fields U = a + b*col + c*row
VCoefs == {<<0, 0, 0>>, <<-1, 0, 1>>, <<-1, 1, 0>>}    \* those of V

\* ------------------------------------------------------------ the inputs
Regular(n) == [k \in 1..n |-> (k - 2) * GridStep]
Flat(n) == [k \in 1..n |-> 0]
Axes == {Regular(NPts), Regular(1), Flat(3)}

Affine(ny, nx, a, b, c) == [r \in 1..ny |-> [q \in 1..nx |-> a + b * (q - 1) + c * (r - 1)]]

VARIABLES
    x, y, u, v,                \* self.x, self.y, self.u, self.v
    spacing, maxLen, detectLoops,
    dx, dy, dr,                \* self.dx, self.dy, self.dr
    used,                      \* self.used, [<<row, col>> -> BOOLEAN]
    streamlines,               \* self.streamlines
    pc,                        \* position in __init__
    x0, y0, sign,              \* arguments of _makeHalfStreamline
    px, py, i, sx, sy,         \* its locals x, y, i, sx, sy
    fx, fy,                    \* the forward half held by _makeStreamline
    seeds,                     \* history: cells chosen as seeds, in order
    stop,                      \* history: why the last half-streamline stopped
    idx,                       \* history: <<i, j>> of every _interp call
    evalAt,                    \* history: step counts at which _detectLoop ran
    cnt0                       \* history: covered cells when the iteration began

vars == <<x, y, u, v, spacing, maxLen, detectLoops, dx, dy, dr, used,
          streamlines, pc, x0, y0, sign, px, py, i, sx, sy, fx, fy,
          seeds, stop, idx, evalAt, cnt0>>

inputs == <<x, y, u, v, spacing, maxLen, detectLoops, dx, dy, dr>>

\* ------------------------------------------------------ python semantics
NX == Len(x)
NY == Len(y)
Cells == (0..NY - 1) \X (0..NX - 1)

\* a[k] with python's wrap-around of negative indices
InRange(n, k) == -n <= k /\ k < n
Wrap(n, k) == IF k < 0 THEN k + n ELSE k
At(a, k) == a[Wrap(Len(a), k) + 1]
At2(a, j, k) == At(At(a, j), k)

\* the indices a slice k : k + s selects on an axis of n entries
SliceStart(n, k) == IF k < 0 THEN (IF k + n < 0 THEN 0 ELSE k + n) ELSE (IF k > n THEN n ELSE k)
Slice(n, k, s) == {m \in 0..n - 1 : SliceStart(n, k) <= m /\ m < SliceStart(n, k + s)}

\* int(): truncation towards zero
Trunc(a, b) == IF a >= 0 THEN a \div b ELSE -((-a) \div b)

Isqrt(n) == CHOOSE k \in 0..n : k * k <= n /\ n < (k + 1) * (k + 1)

\* (x[-1] - x[0]) / (x.size - 1); 0/0 is nan, which no run reads (the mask
\* of a one-point axis is all border)
GridSpacing(a) == IF Len(a) = 1 THEN 0 ELSE (At(a, -1) - At(a, 0)) \div (Len(a) - 1)

StepRes(ddx, ddy) == (Res[1] * Isqrt(ddx * ddy)) \div Res[2]

Count(m) == Cardinality({c \in DOMAIN m : m[c]})
AllUsed == \A c \in Cells : used[c]

\* ------------------------------------------------------------------ Init
Init ==
    /\ x \in Axes
    /\ y \in Axes
    /\ \E a \in Coefs, b \in Coefs, c \in Coefs : u = Affine(Len(y), Len(x), a, b, c)
    /\ \E t \in VCoefs : v = Affine(Len(y), Len(x), t[1], t[2], t[3])
    /\ spacing \in 0..MaxSpacing
    /\ maxLen \in MaxLens
    /\ detectLoops \in BOOLEAN
    /\ dx = GridSpacing(x)
    /\ dy = GridSpacing(y)
    /\ dr = StepRes(dx, dy)
    /\ used = [c \in Cells |-> FALSE]
    /\ streamlines = <<>>
    /\ pc = "init"
    /\ x0 = 0 /\ y0 = 0 /\ sign = 1
    /\ px = 0 /\ py = 0 /\ i = 0 /\ sx = <<>> /\ sy = <<>>
    /\ fx = <<>> /\ fy = <<>>
    /\ seeds = <<>>
    /\ stop = "none"
    /\ idx = {}
    /\ evalAt = {}
    /\ cnt0 = 0

\* ------------------------------------------------- __init__, lines 73-84
\* used[0], used[-1], used[:, 0], used[:, -1] = True
Border(c) ==
    \/ c[1] = Wrap(NY, 0) \/ c[1] = Wrap(NY, -1)
    \/ c[2] = Wrap(NX, 0) \/ c[2] = Wrap(NX, -1)

\* u[j, i] == 0.0 and v[j, i] == 0.0
NoVelocity(c) == At2(u, c[1], c[2]) = 0 /\ At2(v, c[1], c[2]) = 0

\* variant: only the border ring is marked
InitialMaskBorderOnly == [c \in Cells |-> Border(c)]

InitialMask == [c \in Cells |-> Border(c) \/ NoVelocity(c)]

MakeMask ==
    /\ pc = "init"
    /\ used' = InitialMask
    /\ pc' = "outer"
    /\ UNCHANGED <<inputs, streamlines, x0, y0, sign, px, py, i, sx, sy, fx, fy,
                   seeds, stop, idx, evalAt, cnt0>>

\* ------------------------------------------------- __init__, lines 86-93
\* np.transpose(np.logical_not(used).nonzero()): the false cells, row-major
\* variant: the scan runs down the columns
CellAtColumnMajor(k) == <<k % NY, k \div NY>>

CellAt(k) == <<k \div NX, k % NX>>

RECURSIVE NonzeroFrom(_, _)
NonzeroFrom(m, k) ==
    IF k >= NY * NX THEN <<>>
    ELSE (IF m[CellAt(k)] THEN <<>> ELSE <<CellAt(k)>>) \o NonzeroFrom(m, k + 1)

Unused(m) == NonzeroFrom(m, 0)

\* bound of the exploration: the seeds are interior cells, so a run that
\* covers a cell per iteration needs at most (NX - 2) * (NY - 2) of them
IterCap == (NX - 2) * (NY - 2) + IterSlack

\* while not used.all(): one more _makeStreamline call, entering its forward half
Seed ==
    /\ pc = "outer"
    /\ ~AllUsed
    /\ Len(streamlines) < IterCap
    /\ LET nz == Unused(used) IN
        /\ x0' = At(x, nz[1][2])
        /\ y0' = At(y, nz[1][1])
        /\ px' = At(x, nz[1][2])
        /\ py' = At(y, nz[1][1])
        /\ seeds' = Append(seeds, nz[1])
    /\ sign' = 1
    /\ i' = 0 /\ sx' = <<>> /\ sy' = <<>>
    /\ cnt0' = Count(used)
    /\ pc' = "half"
    /\ UNCHANGED <<inputs, used, streamlines, fx, fy, stop, idx, evalAt>>

\* used.all(): the loop exits and __init__ returns
Finish ==
    /\ pc = "outer"
    /\ AllUsed
    /\ pc' = "done"
    /\ UNCHANGED <<inputs, used, streamlines, x0, y0, sign, px, py, i, sx, sy,
                   fx, fy, seeds, stop, idx, evalAt, cnt0>>

\* ------------------------------------------------------- _interp, 95-122
InterpI(qx) == Trunc(qx - At(x, 0), dx)
InterpJ(qy) == Trunc(qy - At(y, 0), dy)
FracI(qx) == (qx - At(x, 0)) % dx
FracJ(qy) == (qy - At(y, 0)) % dy

\* the four reads [j, i], [j, i+1], [j+1, i], [j+1, i+1] are inside the array
ReadsOk(j, k) ==
    /\ InRange(NY, j) /\ InRange(NY, j + 1)
    /\ InRange(NX, k) /\ InRange(NX, k + 1)

\* bilinear interpolation, as the numerator over dx * dy
Bilinear(f, j, k, ai, aj) ==
      At2(f, j, k) * (dx - ai) * (dy - aj)
    + At2(f, j, k + 1) * ai * (dy - aj)
    + At2(f, j + 1, k) * (dx - ai) * aj
    + At2(f, j + 1, k + 1) * ai * aj

\* used[j : j + spacing, i : i + spacing] = True
\* variant: the block starts one cell further on each axis
MarkUsedShifted(m, j, k) ==
    [c \in Cells |-> m[c] \/ (c[1] \in Slice(NY, j + 1, spacing) /\ c[2] \in Slice(NX, k + 1, spacing))]

\* variant: the block replaces the mask
MarkUsedOverwrite(m, j, k) ==
    [c \in Cells |-> c[1] \in Slice(NY, j, spacing) /\ c[2] \in Slice(NX, k, spacing)]

MarkUsed(m, j, k) ==
    [c \in Cells |-> m[c] \/ (c[1] \in Slice(NY, j, spacing) /\ c[2] \in Slice(NX, k, spacing))]

\* ------------------------------------------ _makeHalfStreamline, 137-170
\* xmin < x < xmax and ymin < y < ymax
\* variant: only the x axis is tested
InBoxXOnly(qx, qy) == At(x, 0) < qx /\ qx < At(x, -1)

\* variant: the comparisons are not strict
InBoxClosed(qx, qy) ==
    /\ At(x, 0) <= qx /\ qx <= At(x, -1)
    /\ At(y, 0) <= qy /\ qy <= At(y, -1)

InBox(qx, qy) ==
    /\ At(x, 0) < qx /\ qx < At(x, -1)
    /\ At(y, 0) < qy /\ qy < At(y, -1)

Sgn(a) == IF a < 0 THEN -1 ELSE 1

\* round(dr * a / hypot(a, b)): dr * cos(arctan2(b, a)); arctan2(0, 0) = 0
Along(a, b) ==
    IF a = 0 /\ b = 0 THEN dr
    ELSE Sgn(a) * (CHOOSE k \in 0..dr :
            /\ k = 0 \/ (2 * k - 1) * (2 * k - 1) * (a * a + b * b) <= 4 * dr * dr * a * a
            /\ k = dr \/ (2 * k + 1) * (2 * k + 1) * (a * a + b * b) > 4 * dr * dr * a * a)

\* round(dr * b / hypot(a, b)): dr * sin(arctan2(b, a))
Across(a, b) == IF a = 0 /\ b = 0 THEN 0 ELSE Along(b, a)

\* _detectLoop, 172-179: hypot(x - xj, y - yj) < 0.9 * dr for an earlier point
DetectLoop(xs, ys) ==
    \E k \in 1..Len(xs) - 1 :
        100 * ((xs[Len(xs)] - xs[k]) * (xs[Len(xs)] - xs[k])
               + (ys[Len(ys)] - ys[k]) * (ys[Len(ys)] - ys[k])) < 81 * dr * dr

\* self.detectLoops and i % 10 == 0: whether _detectLoop is evaluated
\* variant: the step count is not tested
LoopCheckDueEveryStep(n) == detectLoops

LoopCheckDue(n) == detectLoops /\ n % 10 = 0

\* i > self.maxLen / 2
CapReached(n) == 2 * n > maxLen

\* one iteration of the while loop; a read outside the arrays raises IndexError
\* (as would int() of a quotient by a zero spacing): pc = "raised"
Step ==
    /\ pc = "half"
    /\ InBox(px, py)
    /\ IF dx = 0 \/ dy = 0 \/ ~ReadsOk(InterpJ(py), InterpI(px))
       THEN /\ pc' = "raised"
            /\ UNCHANGED <<inputs, used, streamlines, x0, y0, sign, px, py, i, sx, sy,
                           fx, fy, seeds, stop, idx, evalAt, cnt0>>
       ELSE LET k == InterpI(px)
                j == InterpJ(py)
                uu == Bilinear(u, j, k, FracI(px), FracJ(py))
                vv == Bilinear(v, j, k, FracI(px), FracJ(py))
                nx == px + sign * Along(uu, vv)
                ny == py + sign * Across(uu, vv)
                nsx == Append(sx, nx)
                nsy == Append(sy, ny)
                due == LoopCheckDue(i + 1)
            IN  /\ used' = MarkUsed(used, j, k)
                /\ idx' = idx \cup {<<k, j>>}
                /\ px' = nx /\ py' = ny
                /\ sx' = nsx /\ sy' = nsy
                /\ i' = i + 1
                /\ evalAt' = IF due THEN evalAt \cup {i + 1} ELSE evalAt
                /\ IF due /\ DetectLoop(nsx, nsy)
                   THEN pc' = "ret" /\ stop' = "loop"
                   ELSE IF CapReached(i + 1)
                        THEN pc' = "ret" /\ stop' = "cap"
                        ELSE pc' = "half" /\ stop' = stop
                /\ UNCHANGED <<inputs, streamlines, x0, y0, sign, fx, fy, seeds, cnt0>>

\* the while condition fails: the position is not strictly inside the box
LeaveBox ==
    /\ pc = "half"
    /\ ~InBox(px, py)
    /\ pc' = "ret"
    /\ stop' = "box"
    /\ UNCHANGED <<inputs, used, streamlines, x0, y0, sign, px, py, i, sx, sy,
                   fx, fy, seeds, idx, evalAt, cnt0>>

\* ------------------------------------------------ _makeStreamline, 124-135
RECURSIVE Reverse(_)
Reverse(s) == IF s = <<>> THEN <<>> ELSE Append(Reverse(Tail(s)), Head(s))

\* the forward half returned; the backward half starts from the same point
ReturnForward ==
    /\ pc = "ret"
    /\ sign = 1
    /\ fx' = sx /\ fy' = sy
    /\ sign' = -1
    /\ px' = x0 /\ py' = y0
    /\ i' = 0 /\ sx' = <<>> /\ sy' = <<>>
    /\ evalAt' = {}
    /\ pc' = "half"
    /\ UNCHANGED <<inputs, used, streamlines, x0, y0, seeds, stop, idx, cnt0>>

\* rx + [x0] + sx, ry + [y0] + sy, appended to self.streamlines
Streamline(rx, ry, qx, qy) == [xs |-> Reverse(rx) \o <<x0>> \o qx, ys |-> Reverse(ry) \o <<y0>> \o qy]

ReturnBackward ==
    /\ pc = "ret"
    /\ sign = -1
    /\ streamlines' = Append(streamlines, Streamline(sx, sy, fx, fy))
    /\ pc' = "outer"
    /\ UNCHANGED <<inputs, used, x0, y0, sign, px, py, i, sx, sy, fx, fy,
                   seeds, stop, idx, evalAt, cnt0>>

Next ==
    \/ MakeMask
    \/ Seed
    \/ Finish
    \/ Step
    \/ LeaveBox
    \/ ReturnForward
    \/ ReturnBackward

Spec == Init /\ [][Next]_vars

\* __init__ runs without suspension: every enabled step is eventually taken
FairSpec == Init /\ [][Next]_vars /\ WF_vars(Next)

\* the runs the construction contract admits: a valid grid, spacing >= 1
InitValid == Init /\ Len(x) >= 2 /\ Len(y) >= 2 /\ dx > 0 /\ dy > 0 /\ spacing >= 1

TermSpec == InitValid /\ [][Next]_vars /\ WF_vars(Next)

TypeOK == pc \in {"init", "outer", "half", "ret", "done", "raised"}

\* ------------------------------------------------------------ the claims
\* a grid the construction contract admits: at least two points per axis,
\* ascending, regularly spaced
ValidGrid == Len(x) >= 2 /\ Len(y) >= 2 /\ dx > 0 /\ dy > 0

\* a single-point axis or a zero grid spacing
Degenerate == Len(x) = 1 \/ Len(y) = 1 \/ dx = 0 \/ dy = 0

Inside(qx, qy) ==
    /\ At(x, 0) < qx /\ qx < At(x, -1)
    /\ At(y, 0) < qy /\ qy < At(y, -1)

Near(qx, qy) ==
    /\ At(x, 0) - dr <= qx /\ qx <= At(x, -1) + dr
    /\ At(y, 0) - dr <= qy /\ qy <= At(y, -1) + dr

Lines == {streamlines[n] : n \in 1..Len(streamlines)}

C2_BoundaryExclusion ==
    (ValidGrid /\ spacing >= 1) => \A s \in Lines : \A n \in 1..Len(s.xs) : Inside(s.xs[n], s.ys[n])

\* C2 amended: every point of an output streamline other than its two end
\* points is strictly inside the bounding box; the end points, the last
\* point each half-streamline appended, are at most dr outside it.
C2_InnerPointsInside ==
    \A s \in Lines :
        /\ \A n \in 2..Len(s.xs) - 1 : Inside(s.xs[n], s.ys[n])
        /\ \A n \in {1, Len(s.xs)} : Near(s.xs[n], s.ys[n])

C2_Witness ==
    \E s \in Lines :
        /\ Len(s.xs) >= 5
        /\ ~Inside(s.xs[1], s.ys[1])
        /\ ~Inside(s.xs[Len(s.xs)], s.ys[Len(s.xs)])

\* C3: a streamline has at most maxLen points, each half-streamline
\* contributing at most maxLen / 2 of them (stated for the valid runs).
C3_MaxLenCap ==
    (ValidGrid /\ spacing >= 1) =>
        /\ \A s \in Lines : Len(s.xs) <= maxLen
        /\ pc = "ret" => 2 * Len(sx) <= maxLen

\* C4: every _interp call reads inside the arrays: 0 <= i, i + 1 <= last
\* column index, 0 <= j, j + 1 <= last row index.
C4_NoOutOfBoundsRead ==
    /\ pc # "raised"
    /\ \A q \in idx :
        /\ 0 <= q[1] /\ q[1] + 1 <= NX - 1
        /\ 0 <= q[2] /\ q[2] + 1 <= NY - 1

C4_Witness == pc = "done" /\ <<NX - 2, NY - 2>> \in idx /\ <<0, 0>> \in idx

C6_ZeroFieldExclusion ==
    /\ pc # "init" => \A c \in Cells : (Border(c) \/ NoVelocity(c)) => used[c]
    /\ \A n \in 1..Len(seeds) : ~Border(seeds[n]) /\ ~NoVelocity(seeds[n])

C6_Witness ==
    /\ pc = "done" /\ Len(seeds) >= 1
    /\ \E c \in Cells : NoVelocity(c) /\ ~Border(c)

\* C7: spacing = 0 is rejected or treated as spacing = 1: a seeding-loop
\* iteration on a valid grid never ends without having covered a cell.
C7_SpacingZeroHandled ==
    (ValidGrid /\ spacing = 0 /\ pc = "outer" /\ Len(streamlines) >= 1) => Count(used) > cnt0

\* C8: a degenerate grid ends in a validation error: the construction
\* neither starts a seeding-loop iteration nor completes normally.
C8_DegenerateFailFast ==
    (Degenerate /\ spacing >= 1) => (pc # "done" /\ seeds = <<>>)

\* C9: the seed is the grid point of the uncovered cell that comes first
\* in row-major order (smallest row, then smallest column).
RowMajorBefore(a, b) == a[1] < b[1] \/ (a[1] = b[1] /\ a[2] <= b[2])

C9_RowMajorSeed ==
    (pc = "half" /\ sign = 1 /\ i = 0) =>
        LET s == seeds[Len(seeds)] IN
            /\ ~used[s]
            /\ \A c \in Cells : ~used[c] => RowMajorBefore(s, c)
            /\ x0 = At(x, s[2]) /\ y0 = At(y, s[1])

C9_Witness ==
    /\ pc = "half" /\ sign = 1 /\ i = 0
    /\ \E c \in Cells : ~used[c] /\ c[1] > seeds[Len(seeds)][1] /\ c[2] < seeds[Len(seeds)][2]

\* C10: a half-streamline stops only outside the box, past the cap
\* i > maxLen / 2, or on a detected loop with detectLoops set and i a
\* positive multiple of 10; _detectLoop runs at no other step count.
C10_StopConditions ==
    /\ pc = "ret" =>
        /\ \/ ~Inside(px, py)
           \/ 2 * i > maxLen
           \/ detectLoops /\ i > 0 /\ i % 10 = 0 /\ DetectLoop(sx, sy)
        /\ stop = "loop" => detectLoops /\ i > 0 /\ i % 10 = 0 /\ DetectLoop(sx, sy)
        /\ stop = "cap" => 2 * i > maxLen
        /\ stop = "box" => ~Inside(px, py)
        /\ ~detectLoops => stop # "loop" /\ (Inside(px, py) => 2 * i > maxLen)
    /\ \A n \in evalAt : detectLoops /\ n > 0 /\ n % 10 = 0

C10_Witness == pc = "ret" /\ stop = "loop" /\ Inside(px, py) /\ 2 * i <= maxLen

C10_WitnessCap == pc = "ret" /\ ~detectLoops /\ Inside(px, py) /\ i >= 10

====
